---- MODULE Spec2Model ----
(***************************************************************************)
(* LIEF::ELF::Relocation (src/ELF/Relocation.cpp): one relocation entry,   *)
(* its constructors, accessors, setters, size/name resolution, hash-based  *)
(* equality and one-line formatting.                                       *)
(*                                                                         *)
(* Machine integers are kept at their width as little-endian sequences of  *)
(* 16-bit limbs: a uint32_t is <<lo, hi>>, a uint64_t / int64_t (two's     *)
(* complement) is <<l0, l1, l2, l3>>.                                      *)
(***************************************************************************)
EXTENDS Integers, Sequences, FiniteSets, TLC

VARIABLES rel, ret

vars == <<rel, ret>>

\* ------------------------------------------------------------------ bounds
NumSymbols == 2

\* ------------------------------------------------------- integer encodings
Limb == 256 * 256

Zero32 == <<0, 0>>

Zero64 == <<0, 0, 0, 0>>

\* uint32_t -> uint64_t (implicit conversion of r_offset, of type_ to size_t)
ZeroExtend(w) == <<w[1], w[2], 0, 0>>

\* int32_t -> int64_t (implicit conversion of Elf32_Rela::r_addend)
SignExtend(w) == IF w[2] >= Limb \div 2 THEN <<w[1], w[2], Limb - 1, Limb - 1>>
                 ELSE <<w[1], w[2], 0, 0>>

\* the 32-bit word kept whole, as if masked with 0xffffffff
MaskType32_whole(info) == <<info[1], info[2]>>

\* static_cast<uint32_t>(r_info & 0xff) on a 32-bit r_info
MaskType32(info) == <<info[1] % 256, 0>>

\* static_cast<uint32_t>(r_info & 0xffffffff) on a 64-bit r_info
MaskType64(info) == <<info[1], info[2]>>

\* ------------------------------------------------------------ collaborators
Ents == {1, 2}

nullptr == 0

Symbols == 1 .. NumSymbols

SupportedArchs == {"EM_X86_64", "EM_386", "EM_ARM", "EM_AARCH64"}

Archs == SupportedArchs \cup {"EM_NONE", "EM_MIPS"}

\* ------------------------------------------------------------- constructors
\* Relocation::Relocation(void)
Relocation_default ==
  [address |-> Zero64, type |-> Zero32, addend |-> Zero64, isRela |-> FALSE,
   symbol |-> nullptr, architecture |-> "EM_NONE"]

\* the copy constructor carrying the symbol over
Relocation_copy_with_symbol(other) ==
  [address |-> other.address, type |-> other.type, addend |-> other.addend,
   isRela |-> other.isRela, symbol |-> other.symbol,
   architecture |-> other.architecture]

\* Relocation::Relocation(const Relocation& other)
Relocation_copy(other) ==
  [address |-> other.address, type |-> other.type, addend |-> other.addend,
   isRela |-> other.isRela, symbol |-> nullptr,
   architecture |-> other.architecture]

\* Relocation::Relocation(const Elf32_Rel* header)
Relocation_Elf32_Rel(header) ==
  [address |-> ZeroExtend(header.r_offset), type |-> MaskType32(header.r_info),
   addend |-> Zero64, isRela |-> FALSE, symbol |-> nullptr,
   architecture |-> "EM_NONE"]

\* Relocation::Relocation(const Elf32_Rela* header)
Relocation_Elf32_Rela(header) ==
  [address |-> ZeroExtend(header.r_offset), type |-> MaskType32(header.r_info),
   addend |-> SignExtend(header.r_addend), isRela |-> TRUE, symbol |-> nullptr,
   architecture |-> "EM_NONE"]

\* the 64-bit implicit-addend constructor reading an addend from the record
Relocation_Elf64_Rel_addend(header) ==
  [address |-> header.r_offset, type |-> MaskType64(header.r_info),
   addend |-> header.r_info, isRela |-> FALSE, symbol |-> nullptr,
   architecture |-> "EM_NONE"]

\* Relocation::Relocation(const Elf64_Rel* header)
Relocation_Elf64_Rel(header) ==
  [address |-> header.r_offset, type |-> MaskType64(header.r_info),
   addend |-> Zero64, isRela |-> FALSE, symbol |-> nullptr,
   architecture |-> "EM_NONE"]

\* Relocation::Relocation(const Elf64_Rela* header)
Relocation_Elf64_Rela(header) ==
  [address |-> header.r_offset, type |-> MaskType64(header.r_info),
   addend |-> header.r_addend, isRela |-> TRUE, symbol |-> nullptr,
   architecture |-> "EM_NONE"]

\* the explicit constructor presetting an architecture
Relocation_values_with_arch(address, type, addend, isRela) ==
  [address |-> address, type |-> type, addend |-> addend, isRela |-> isRela,
   symbol |-> nullptr, architecture |-> "EM_X86_64"]

\* Relocation::Relocation(uint64_t address, uint32_t type, int64_t addend, bool isRela)
Relocation_values(address, type, addend, isRela) ==
  [address |-> address, type |-> type, addend |-> addend, isRela |-> isRela,
   symbol |-> nullptr, architecture |-> "EM_NONE"]

\* ------------------------------------------------------ accessors (const)
\* uint64_t Relocation::address(void) const
address(r) == r.address

\* int64_t Relocation::addend(void) const
addend(r) == r.addend

\* uint32_t Relocation::type(void) const
type(r) == r.type

\* bool Relocation::is_rela(void) const
is_rela(r) == r.isRela

\* bool Relocation::is_rel(void) const
is_rel(r) == ~r.isRela

\* ARCH Relocation::architecture(void) const
architecture(r) == r.architecture

\* bool Relocation::has_symbol(void) const
has_symbol(r) == r.symbol # nullptr

\* symbol() that dereferences symbol_ without the null check
symbol_unchecked(r) == [kind |-> "value", v |-> r.symbol]

\* const Symbol& Relocation::symbol(void) const
symbol(r) == IF r.symbol # nullptr
             THEN [kind |-> "value", v |-> r.symbol]
             ELSE [kind |-> "not_found",
                   what |-> <<"No symbol associated with this relocation">>]

\* ----------------------------------------------- type and size resolution
\* a small type code as a uint32_t
TypeCode(n) == <<n % Limb, n \div Limb>>

\* LIEF/ELF/RelocationSizes.hpp: per-architecture size tables (representative
\* entries; each maps a known subset of the type codes to a size)
relocation_x86_64_sizes == (TypeCode(1) :> 8) @@ (TypeCode(2) :> 4)

relocation_i386_sizes == (TypeCode(1) :> 4) @@ (TypeCode(20) :> 2)

relocation_ARM_sizes == (TypeCode(2) :> 4) @@ (TypeCode(8) :> 1)

relocation_AARCH64_sizes == (TypeCode(257) :> 8) @@ (TypeCode(258) :> 4)

\* LIEF/ELF/EnumToString.hpp: to_string(ARCH)
to_string_ARCH(a) == a

\* LIEF/ELF/EnumToString.hpp: to_string(RELOC_<arch>), a label of the type
\* in the enumeration of that architecture
to_string_RELOC(enum, t) == <<enum, t>>

\* std::to_string(uint32_t)
std_to_string(t) == <<"decimal", t>>

\* std::map::at inside the try block of one case of Relocation::size
SizeCase(r, sizes, enum) ==
  IF type(r) \in DOMAIN sizes
  THEN [kind |-> "value", v |-> sizes[type(r)]]
  ELSE [kind |-> "not_implemented",
        what |-> <<to_string_ARCH(architecture(r)), " - ",
                   to_string_RELOC(enum, type(r))>>]

\* size() whose default case answers 0 instead of throwing
size_default_zero(r) ==
  CASE architecture(r) = "EM_X86_64" ->
         SizeCase(r, relocation_x86_64_sizes, "RELOC_x86_64")
    [] architecture(r) = "EM_386" ->
         SizeCase(r, relocation_i386_sizes, "RELOC_i386")
    [] architecture(r) = "EM_ARM" ->
         SizeCase(r, relocation_ARM_sizes, "RELOC_ARM")
    [] architecture(r) = "EM_AARCH64" ->
         SizeCase(r, relocation_AARCH64_sizes, "RELOC_AARCH64")
    [] OTHER -> [kind |-> "value", v |-> 0]

\* size() without the EM_ARM case, which then falls through to the default
size_without_ARM(r) ==
  CASE architecture(r) = "EM_X86_64" ->
         SizeCase(r, relocation_x86_64_sizes, "RELOC_x86_64")
    [] architecture(r) = "EM_386" ->
         SizeCase(r, relocation_i386_sizes, "RELOC_i386")
    [] architecture(r) = "EM_AARCH64" ->
         SizeCase(r, relocation_AARCH64_sizes, "RELOC_AARCH64")
    [] OTHER ->
         [kind |-> "not_implemented",
          what |-> <<to_string_ARCH(architecture(r))>>]

\* uint32_t Relocation::size(void) const
size(r) ==
  CASE architecture(r) = "EM_X86_64" ->
         SizeCase(r, relocation_x86_64_sizes, "RELOC_x86_64")
    [] architecture(r) = "EM_386" ->
         SizeCase(r, relocation_i386_sizes, "RELOC_i386")
    [] architecture(r) = "EM_ARM" ->
         SizeCase(r, relocation_ARM_sizes, "RELOC_ARM")
    [] architecture(r) = "EM_AARCH64" ->
         SizeCase(r, relocation_AARCH64_sizes, "RELOC_AARCH64")
    [] OTHER ->
         [kind |-> "not_implemented",
          what |-> <<to_string_ARCH(architecture(r))>>]

\* ------------------------------------------------------ hash and equality
\* accept() that does not hand the type to the visitor
accept_without_type(r) ==
  <<address(r), addend(r), architecture(r)>>
    \o (IF has_symbol(r) THEN <<symbol(r).v>> ELSE <<>>)

\* void Relocation::accept(Visitor& visitor) const: the values handed to
\* the visitor, in order, each converted to size_t
accept(r) ==
  <<address(r), addend(r), ZeroExtend(type(r)), architecture(r)>>
    \o (IF has_symbol(r) THEN <<symbol(r).v>> ELSE <<>>)

\* LIEF/visitors/Hash.hpp: Hash::hash, a function of the visited values
\* alone (taken collision-free)
Hash_hash(r) == accept(r)

\* bool Relocation::operator==(const Relocation& rhs) const
operator_eq(lhs, rhs) == Hash_hash(lhs) = Hash_hash(rhs)

\* bool Relocation::operator!=(const Relocation& rhs) const
operator_ne(lhs, rhs) == ~operator_eq(lhs, rhs)

\* ------------------------------------------------------------- formatting
\* Symbol::demangled_name(): throws not_supported where demangling is not
\* available for the symbol
demangled_name(s) == IF s % 2 = 1 THEN [kind |-> "value", v |-> <<"demangled", s>>]
                     ELSE [kind |-> "not_supported", what |-> <<>>]

\* Symbol::name()
name(s) == <<"name", s>>

\* the symbol lookup of operator<< without the has_symbol() guard
symbol_name_unguarded(entry) ==
  LET sym == symbol(entry) IN
  IF sym.kind # "value" THEN sym
  ELSE IF demangled_name(sym.v).kind = "value"
       THEN demangled_name(sym.v)
       ELSE [kind |-> "value", v |-> name(sym.v)]

\* the symbol_name part of operator<< (lines 254-265)
symbol_name(entry) ==
  IF has_symbol(entry)
  THEN LET sym == symbol(entry) IN
       IF sym.kind # "value" THEN sym
       ELSE IF demangled_name(sym.v).kind = "value"
            THEN demangled_name(sym.v)
            ELSE [kind |-> "value", v |-> name(sym.v)]
  ELSE [kind |-> "value", v |-> <<>>]

\* the relocation_type part of operator<< (lines 267-297)
relocation_type(entry) ==
  CASE architecture(entry) = "EM_X86_64" -> to_string_RELOC("RELOC_x86_64", type(entry))
    [] architecture(entry) = "EM_386" -> to_string_RELOC("RELOC_i386", type(entry))
    [] architecture(entry) = "EM_ARM" -> to_string_RELOC("RELOC_ARM", type(entry))
    [] architecture(entry) = "EM_AARCH64" -> to_string_RELOC("RELOC_AARCH64", type(entry))
    [] OTHER -> std_to_string(type(entry))

\* std::ostream& operator<<(std::ostream& os, const Relocation& entry)
operator_lshift(entry) ==
  IF symbol_name(entry).kind # "value" THEN symbol_name(entry)
  ELSE [kind |-> "value",
        v |-> [address |-> address(entry), type |-> relocation_type(entry),
               symbol |-> symbol_name(entry).v]]

\* ------------------------------------------------------------------ inputs
\* raw records handed to the decoding constructors
Elf32_Rel == [r_offset : {<<4096, 0>>, <<65535, 65535>>},
              r_info : {<<2, 0>>, <<258, 1>>, <<255, 65535>>}]

Elf32_Rela == [r_offset : {<<4096, 0>>, <<65535, 65535>>},
               r_info : {<<2, 0>>, <<258, 1>>},
               r_addend : {<<0, 0>>, <<8, 0>>, <<65528, 65535>>}]

Elf64_Rel == [r_offset : {<<4096, 0, 0, 0>>, <<0, 0, 1, 0>>},
              r_info : {<<2, 0, 1, 0>>, <<258, 1, 7, 0>>, <<257, 0, 0, 0>>}]

Elf64_Rela == [r_offset : {<<4096, 0, 0, 0>>, <<0, 0, 1, 0>>},
               r_info : {<<2, 0, 1, 0>>, <<258, 1, 7, 0>>},
               r_addend : {Zero64, <<8, 0, 0, 0>>, <<65528, 65535, 65535, 65535>>}]

\* arguments of the explicit constructor and of the setters
Addresses == {Zero64, <<4096, 0, 0, 0>>, <<65535, 65535, 0, 0>>, <<0, 0, 1, 0>>}

Types == {Zero32, <<2, 0>>, <<258, 1>>}

Addends == {Zero64, <<8, 0, 0, 0>>, <<65528, 65535, 65535, 65535>>}

\* the records and arguments used where two entities evolve side by side
Elf32_Rel_few == {[r_offset |-> <<4096, 0>>, r_info |-> <<256, 1>>]}

Elf32_Rela_few ==
  {[r_offset |-> <<4096, 0>>, r_info |-> <<256, 1>>, r_addend |-> <<65528, 65535>>]}

Elf64_Rel_few == {[r_offset |-> <<4096, 0, 0, 0>>, r_info |-> <<258, 1, 7, 0>>]}

Elf64_Rela_few ==
  {[r_offset |-> <<4096, 0, 0, 0>>, r_info |-> <<258, 1, 7, 0>>,
    r_addend |-> <<65528, 65535, 65535, 65535>>]}

Addresses_few == {<<4096, 0, 0, 0>>}

Types_few == {<<258, 1>>}

Addends_few == {Zero64, <<65528, 65535, 65535, 65535>>}

Archs_few == {"EM_NONE", "EM_X86_64"}

\* the result of a call that returns nothing
void == [kind |-> "void"]

Called(op, self, arg, val) == [op |-> op, self |-> self, arg |-> arg, val |-> val]

\* ----------------------------------------------------------------- actions
\* Relocation r;
New_default(i) ==
  /\ rel' = [rel EXCEPT ![i] = Relocation_default]
  /\ ret' = Called("Relocation()", i, <<>>, void)

\* Relocation r{other};
New_copy(i, j) ==
  /\ i # j
  /\ rel' = [rel EXCEPT ![i] = Relocation_copy(rel[j])]
  /\ ret' = Called("Relocation(const Relocation&)", i, j, void)

\* Relocation r{header}; for each of the four raw layouts
New_Elf32_Rel(i, header) ==
  /\ rel' = [rel EXCEPT ![i] = Relocation_Elf32_Rel(header)]
  /\ ret' = Called("Relocation(const Elf32_Rel*)", i, header, void)

New_Elf32_Rela(i, header) ==
  /\ rel' = [rel EXCEPT ![i] = Relocation_Elf32_Rela(header)]
  /\ ret' = Called("Relocation(const Elf32_Rela*)", i, header, void)

New_Elf64_Rel(i, header) ==
  /\ rel' = [rel EXCEPT ![i] = Relocation_Elf64_Rel(header)]
  /\ ret' = Called("Relocation(const Elf64_Rel*)", i, header, void)

New_Elf64_Rela(i, header) ==
  /\ rel' = [rel EXCEPT ![i] = Relocation_Elf64_Rela(header)]
  /\ ret' = Called("Relocation(const Elf64_Rela*)", i, header, void)

\* Relocation r{address, type, addend, isRela};
New_values(i, a, t, d, isRela) ==
  /\ rel' = [rel EXCEPT ![i] = Relocation_values(a, t, d, isRela)]
  /\ ret' = Called("Relocation(uint64_t, uint32_t, int64_t, bool)", i,
                   <<a, t, d, isRela>>, void)

\* void Relocation::swap(Relocation& other)
swap(i, j) ==
  /\ rel' = [rel EXCEPT ![i] = rel[j], ![j] = rel[i]]
  /\ ret' = Called("swap", i, j, void)

\* Relocation& Relocation::operator=(Relocation other): the parameter is a
\* copy of the argument, swapped with *this and destroyed on return
operator_assign(i, j) ==
  /\ rel' = [rel EXCEPT ![i] = Relocation_copy(rel[j])]
  /\ ret' = Called("operator=", i, j, void)

\* void Relocation::address(uint64_t address)
set_address(i, v) ==
  /\ rel' = [rel EXCEPT ![i].address = v]
  /\ ret' = Called("address(uint64_t)", i, v, void)

\* void Relocation::addend(int64_t addend)
set_addend(i, v) ==
  /\ rel' = [rel EXCEPT ![i].addend = v]
  /\ ret' = Called("addend(int64_t)", i, v, void)

\* the type setter masking its argument as the 32-bit decoders do
set_type_masked(i, v) ==
  /\ rel' = [rel EXCEPT ![i].type = MaskType32(v)]
  /\ ret' = Called("type(uint32_t)", i, v, void)

\* void Relocation::type(uint32_t type)
set_type(i, v) ==
  /\ rel' = [rel EXCEPT ![i].type = v]
  /\ ret' = Called("type(uint32_t)", i, v, void)

\* the symbol-table resolver attaches a symbol (writes symbol_)
bind_symbol(i, s) ==
  /\ rel' = [rel EXCEPT ![i].symbol = s]
  /\ ret' = Called("bind", i, s, void)

\* the file reader sets the architecture (writes architecture_)
set_architecture(i, a) ==
  /\ rel' = [rel EXCEPT ![i].architecture = a]
  /\ ret' = Called("architecture(ARCH)", i, a, void)

\* calls of the const member functions: the entity is not written
get_address(i) ==
  /\ ret' = Called("address()", i, <<>>, [kind |-> "value", v |-> address(rel[i])])
  /\ UNCHANGED rel

get_addend(i) ==
  /\ ret' = Called("addend()", i, <<>>, [kind |-> "value", v |-> addend(rel[i])])
  /\ UNCHANGED rel

get_type(i) ==
  /\ ret' = Called("type()", i, <<>>, [kind |-> "value", v |-> type(rel[i])])
  /\ UNCHANGED rel

get_is_rela(i) ==
  /\ ret' = Called("is_rela()", i, <<>>, [kind |-> "value", v |-> is_rela(rel[i])])
  /\ UNCHANGED rel

get_is_rel(i) ==
  /\ ret' = Called("is_rel()", i, <<>>, [kind |-> "value", v |-> is_rel(rel[i])])
  /\ UNCHANGED rel

get_architecture(i) ==
  /\ ret' = Called("architecture()", i, <<>>,
                   [kind |-> "value", v |-> architecture(rel[i])])
  /\ UNCHANGED rel

get_has_symbol(i) ==
  /\ ret' = Called("has_symbol()", i, <<>>,
                   [kind |-> "value", v |-> has_symbol(rel[i])])
  /\ UNCHANGED rel

get_symbol(i) ==
  /\ ret' = Called("symbol()", i, <<>>, symbol(rel[i]))
  /\ UNCHANGED rel

get_size(i) ==
  /\ ret' = Called("size()", i, <<>>, size(rel[i]))
  /\ UNCHANGED rel

compare_eq(i, j) ==
  /\ i # j
  /\ ret' = Called("operator==", i, j,
                   [kind |-> "value", v |-> operator_eq(rel[i], rel[j])])
  /\ UNCHANGED rel

compare_ne(i, j) ==
  /\ i # j
  /\ ret' = Called("operator!=", i, j,
                   [kind |-> "value", v |-> operator_ne(rel[i], rel[j])])
  /\ UNCHANGED rel

print(i) ==
  /\ ret' = Called("operator<<", i, <<>>, operator_lshift(rel[i]))
  /\ UNCHANGED rel

\* ------------------------------------------------------------ specification
Init ==
  /\ rel = [i \in Ents |-> Relocation_default]
  /\ ret = Called("Relocation()", 2, <<>>, void)

\* Two entities side by side: every constructor, setter and collaborator
\* write on either, every const call on the first (with the second as the
\* right-hand side of a comparison).
Next ==
  \/ \E i \in Ents : New_default(i)
  \/ \E i, j \in Ents : New_copy(i, j)
  \/ \E i \in Ents, h \in Elf32_Rel_few : New_Elf32_Rel(i, h)
  \/ \E i \in Ents, h \in Elf32_Rela_few : New_Elf32_Rela(i, h)
  \/ \E i \in Ents, h \in Elf64_Rel_few : New_Elf64_Rel(i, h)
  \/ \E i \in Ents, h \in Elf64_Rela_few : New_Elf64_Rela(i, h)
  \/ \E i \in Ents, a \in Addresses_few, t \in Types_few, d \in Addends_few, b \in BOOLEAN :
       New_values(i, a, t, d, b)
  \/ \E i, j \in Ents : swap(i, j)
  \/ \E i, j \in Ents : operator_assign(i, j)
  \/ \E i \in Ents, v \in Addresses_few : set_address(i, v)
  \/ \E i \in Ents, v \in Addends_few : set_addend(i, v)
  \/ \E i \in Ents, v \in Types_few : set_type(i, v)
  \/ \E i \in Ents, s \in Symbols : bind_symbol(i, s)
  \/ \E i \in Ents, a \in Archs_few : set_architecture(i, a)
  \/ get_address(1)
  \/ get_addend(1)
  \/ get_type(1)
  \/ get_is_rela(1)
  \/ get_is_rel(1)
  \/ get_architecture(1)
  \/ get_has_symbol(1)
  \/ get_symbol(1)
  \/ get_size(1)
  \/ compare_eq(1, 2)
  \/ compare_ne(1, 2)
  \/ print(1)

Spec == Init /\ [][Next]_vars

\* Decoding and explicit construction over the full sets of raw records and
\* values, read back through the accessors.
NextDecode ==
  \/ \E i \in Ents : New_default(i)
  \/ \E h \in Elf32_Rel : New_Elf32_Rel(1, h)
  \/ \E h \in Elf32_Rela : New_Elf32_Rela(1, h)
  \/ \E h \in Elf64_Rel : New_Elf64_Rel(1, h)
  \/ \E h \in Elf64_Rela : New_Elf64_Rela(1, h)
  \/ \E a \in Addresses, t \in Types, d \in Addends, b \in BOOLEAN :
       New_values(2, a, t, d, b)
  \/ \E i \in Ents : get_address(i)
  \/ \E i \in Ents : get_type(i)
  \/ \E i \in Ents : get_addend(i)
  \/ \E i \in Ents : get_is_rela(i)
  \/ \E i \in Ents : get_is_rel(i)
  \/ \E i \in Ents : get_architecture(i)
  \/ \E i \in Ents : get_has_symbol(i)
  \/ \E i \in Ents : get_size(i)
  \/ \E i, j \in Ents : compare_eq(i, j)

SpecDecode == Init /\ [][NextDecode]_vars

\* Size and name resolution of one entity over every architecture, a range
\* of type codes inside and outside the size tables, and every symbol state.
TypeCodes == {TypeCode(n) : n \in {0, 1, 2, 8, 20, 257, 258}} \cup {<<2, 1>>}

NextResolve ==
  \/ \E v \in TypeCodes : set_type(1, v)
  \/ \E a \in Archs : set_architecture(1, a)
  \/ \E s \in Symbols : bind_symbol(1, s)
  \/ New_default(1)
  \/ get_size(1)
  \/ get_symbol(1)
  \/ get_has_symbol(1)
  \/ print(1)

SpecResolve == Init /\ [][NextResolve]_vars

\* ================================================================== claims
Constructors ==
  {"Relocation()", "Relocation(const Relocation&)", "Relocation(const Elf32_Rel*)",
   "Relocation(const Elf32_Rela*)", "Relocation(const Elf64_Rel*)",
   "Relocation(const Elf64_Rela*)", "Relocation(uint64_t, uint32_t, int64_t, bool)"}

Queries ==
  {"address()", "addend()", "type()", "is_rela()", "is_rel()", "architecture()",
   "has_symbol()", "symbol()", "size()", "operator==", "operator!=", "operator<<"}

\* the entity the last call was made on
Self == rel[ret.self]

\* a 32-bit two's complement value is negative
Negative32(w) == w[2] >= 32768

\* x is the 64-bit value with the same sign and magnitude as the 32-bit w
SameSigned(x, w) ==
  /\ x[1] = w[1] /\ x[2] = w[2]
  /\ x[3] = (IF Negative32(w) THEN 65535 ELSE 0)
  /\ x[4] = x[3]

\* t is the low 8 bits of the 32-bit word w, as a uint32_t
Low8Of(t, w) == t[2] = 0 /\ t[1] < 256 /\ (w[1] - t[1]) % 256 = 0

Unset(r) == architecture(r) = "EM_NONE" /\ ~has_symbol(r)

\* C1: each decoding constructor yields an entity that reads back
\* address() = r_offset, type() = r_info masked to 8 bits (32-bit layouts) or
\* to 32 bits (64-bit layouts), addend() = r_addend sign-preserved (Rela) or
\* 0 (Rel), is_rela() exactly for the Rela layouts, architecture() = EM_NONE
\* and no symbol.
C1_DecodeReadsBack ==
  /\ ret.op = "Relocation(const Elf32_Rel*)" =>
       /\ address(Self) = <<ret.arg.r_offset[1], ret.arg.r_offset[2], 0, 0>>
       /\ Low8Of(type(Self), ret.arg.r_info)
       /\ addend(Self) = Zero64 /\ ~is_rela(Self) /\ is_rel(Self) /\ Unset(Self)
  /\ ret.op = "Relocation(const Elf32_Rela*)" =>
       /\ address(Self) = <<ret.arg.r_offset[1], ret.arg.r_offset[2], 0, 0>>
       /\ Low8Of(type(Self), ret.arg.r_info)
       /\ SameSigned(addend(Self), ret.arg.r_addend)
       /\ is_rela(Self) /\ ~is_rel(Self) /\ Unset(Self)
  /\ ret.op = "Relocation(const Elf64_Rel*)" =>
       /\ address(Self) = ret.arg.r_offset
       /\ type(Self) = <<ret.arg.r_info[1], ret.arg.r_info[2]>>
       /\ addend(Self) = Zero64 /\ ~is_rela(Self) /\ is_rel(Self) /\ Unset(Self)
  /\ ret.op = "Relocation(const Elf64_Rela*)" =>
       /\ address(Self) = ret.arg.r_offset
       /\ type(Self) = <<ret.arg.r_info[1], ret.arg.r_info[2]>>
       /\ addend(Self) = ret.arg.r_addend
       /\ is_rela(Self) /\ ~is_rel(Self) /\ Unset(Self)

\* a 32-bit Rela record with info 0x00010102 and addend -8 was decoded:
\* type 2, addend -8 as a 64-bit value
C1_Witness ==
  /\ ret.op = "Relocation(const Elf32_Rela*)"
  /\ ret.arg.r_info = <<258, 1>> /\ ret.arg.r_addend = <<65528, 65535>>
  /\ type(Self) = <<2, 0>>
  /\ addend(Self) = <<65528, 65535, 65535, 65535>>

\* the size table of a supported architecture, its enumeration's name
SizesOf(a) ==
  CASE a = "EM_X86_64" -> relocation_x86_64_sizes
    [] a = "EM_386" -> relocation_i386_sizes
    [] a = "EM_ARM" -> relocation_ARM_sizes
    [] a = "EM_AARCH64" -> relocation_AARCH64_sizes

EnumOf(a) ==
  CASE a = "EM_X86_64" -> "RELOC_x86_64"
    [] a = "EM_386" -> "RELOC_i386"
    [] a = "EM_ARM" -> "RELOC_ARM"
    [] a = "EM_AARCH64" -> "RELOC_AARCH64"

\* C2: size() has exactly three outcomes: the tabulated size (supported
\* architecture, type in its table); not_implemented naming architecture and
\* type (supported architecture, type absent); not_implemented naming only
\* the architecture (unsupported architecture, EM_NONE included).
C2_SizeOutcomes ==
  ret.op = "size()" =>
    LET a == architecture(Self)
        t == type(Self)
    IN /\ (a \in SupportedArchs /\ t \in DOMAIN SizesOf(a)) =>
            ret.val = [kind |-> "value", v |-> SizesOf(a)[t]]
       /\ (a \in SupportedArchs /\ t \notin DOMAIN SizesOf(a)) =>
            /\ ret.val.kind = "not_implemented"
            /\ Len(ret.val.what) = 3
            /\ ret.val.what[1] = to_string_ARCH(a)
            /\ ret.val.what[3] = to_string_RELOC(EnumOf(a), t)
       /\ a \notin SupportedArchs =>
            /\ ret.val.kind = "not_implemented"
            /\ ret.val.what = <<to_string_ARCH(a)>>

\* size() on an ARM entity whose type is outside the ARM table
C2_Witness ==
  /\ ret.op = "size()"
  /\ architecture(Self) = "EM_ARM" /\ type(Self) = TypeCode(257)
  /\ ret.val.kind = "not_implemented" /\ Len(ret.val.what) = 3

\* the last call made has_symbol() of entity i become true
Bound(i) == ~has_symbol(rel[i]) /\ has_symbol(rel'[i])

\* right after any constructor no symbol is bound; symbol() fails with
\* not_found exactly while has_symbol() is false and otherwise returns the
\* bound symbol
C3_SymbolReads ==
  /\ ret.op \in Constructors => ~has_symbol(Self)
  /\ ret.op = "symbol()" =>
       IF has_symbol(Self)
       THEN ret.val = [kind |-> "value", v |-> Self.symbol] /\ ret.val.v # nullptr
       ELSE ret.val.kind = "not_found"

\* C3 (as stated): over any sequence of operations has_symbol() becomes true
\* only by an explicit bind on that entity.
C3_OnlyBindBinds ==
  [][\A i \in Ents : Bound(i) => (ret'.op = "bind" /\ ret'.self = i)]_vars

\* C3 (amended): has_symbol() is false after every constructor, symbol()
\* fails with not_found while it is false and returns the bound symbol while
\* it is true, and it becomes true only by an explicit bind on the entity or
\* by a swap with an entity that has a symbol bound.
C3_BindOrSwapBinds ==
  /\ []C3_SymbolReads
  /\ [][\A i \in Ents : Bound(i) =>
          \/ ret'.op = "bind" /\ ret'.self = i
          \/ /\ ret'.op = "swap" /\ i \in {ret'.self, ret'.arg}
             /\ \E j \in {ret'.self, ret'.arg} \ {i} :
                  has_symbol(rel[j]) /\ rel'[i].symbol = rel[j].symbol]_vars

\* a swap has just given its target the symbol of the other entity
C3_Witness ==
  /\ ret.op = "swap" /\ ret.self # ret.arg
  /\ has_symbol(Self) /\ ~has_symbol(rel[ret.arg])

\* the fields two entities differ in
Differing(l, r) == {f \in DOMAIN l : l[f] # r[f]}

Hashed == {"address", "addend", "type", "architecture", "symbol"}

\* what the last comparison of Self with rel[ret.arg] answered for "equal"
AnsweredEqual == IF ret.op = "operator==" THEN ret.val.v ELSE ~ret.val.v

\* C4 (as stated): two entities that differ in exactly one of the six
\* fields compare unequal (operator== false, operator!= true).
C4_AnyFieldBreaksEquality ==
  ret.op \in {"operator==", "operator!="} =>
    (Cardinality(Differing(Self, rel[ret.arg])) = 1 => ~AnsweredEqual)

\* C4 (amended): two entities that differ in exactly one of address, type,
\* addend, architecture and symbol binding compare unequal; two that differ
\* only in the has-addend flag compare equal.
C4_HashedFieldBreaksEquality ==
  ret.op \in {"operator==", "operator!="} =>
    LET d == Differing(Self, rel[ret.arg])
    IN /\ (Cardinality(d) = 1 /\ d \subseteq Hashed) => ~AnsweredEqual
       /\ d = {"isRela"} => AnsweredEqual
       /\ d = {} => AnsweredEqual

\* operator== answered true for two entities that differ only in is_rela
C4_Witness ==
  /\ ret.op = "operator==" /\ ret.val.v
  /\ Differing(Self, rel[ret.arg]) = {"isRela"}

\* the four values the explicit constructor takes
Values(r) == <<r.address, r.type, r.addend, r.isRela>>

C6_FormattingNeverFails ==
  ret.op = "operator<<" =>
    /\ ret.val.kind = "value"
    /\ ret.val.v.address = address(Self)
    /\ architecture(Self) \notin SupportedArchs =>
         /\ ret.val.v.type = std_to_string(type(Self))
         /\ size(Self).kind = "not_implemented"
    /\ architecture(Self) \in SupportedArchs =>
         ret.val.v.type = to_string_RELOC(EnumOf(architecture(Self)), type(Self))
    /\ ~has_symbol(Self) => ret.val.v.symbol = <<>>
    /\ has_symbol(Self) =>
         ret.val.v.symbol =
           (IF demangled_name(Self.symbol).kind = "value"
            THEN demangled_name(Self.symbol).v ELSE name(Self.symbol))

\* an entity with an unsupported architecture and a symbol that cannot be
\* demangled was formatted
C6_Witness ==
  /\ ret.op = "operator<<" /\ ret.val.kind = "value"
  /\ architecture(Self) = "EM_MIPS" /\ has_symbol(Self)
  /\ demangled_name(Self.symbol).kind = "not_supported"
  /\ ret.val.v.symbol = name(Self.symbol)

\* the formatting path produces a type name for the entity
NameResolved(r) == operator_lshift(r).kind = "value"

SizeResolved(r) == size(r).kind = "value"

\* C7 (as stated): for every (architecture, type) the name and the size are
\* resolved together or not at all.
C7_NeverPartial ==
  ret.op \in {"size()", "operator<<"} => (NameResolved(Self) <=> SizeResolved(Self))

\* C7 (amended): whenever size() succeeds the architecture is supported and
\* the formatting path produces that architecture's name of the type; the
\* converse fails, since the formatting path produces a type field for every
\* (architecture, type), also where size() fails.
C7_SizeImpliesName ==
  ret.op \in {"size()", "operator<<"} =>
    /\ NameResolved(Self)
    /\ SizeResolved(Self) =>
         /\ architecture(Self) \in SupportedArchs
         /\ operator_lshift(Self).v.type =
              to_string_RELOC(EnumOf(architecture(Self)), type(Self))

\* size() succeeded on an AARCH64 entity of type 257
C7_Witness ==
  /\ ret.op = "size()" /\ ret.val = [kind |-> "value", v |-> 8]
  /\ architecture(Self) = "EM_AARCH64" /\ type(Self) = TypeCode(257)

\* an implicit-addend entity has a zero addend
RelZero(r) == ~is_rela(r) => addend(r) = Zero64

\* C8 (as stated): in every reachable state, is_rela() = false implies
\* addend() = 0.
C8_RelHasZeroAddend == \A i \in Ents : RelZero(rel[i])

\* C8 (amended): the default constructor and the two implicit-addend
\* decoding constructors yield is_rela() = false with addend() = 0, and every
\* operation other than the explicit-value constructor and the addend setter
\* keeps "is_rela() = false implies addend() = 0" in all entities; those two
\* store the addend they are given whatever the has-addend flag.
C8_RelZeroUnlessStored ==
  /\ [](ret.op \in {"Relocation()", "Relocation(const Elf32_Rel*)",
                    "Relocation(const Elf64_Rel*)"} =>
          ~is_rela(Self) /\ addend(Self) = Zero64)
  /\ [](ret.op \in {"Relocation(uint64_t, uint32_t, int64_t, bool)"} =>
          addend(Self) = ret.arg[3] /\ is_rela(Self) = ret.arg[4])
  /\ [][(/\ \A i \in Ents : RelZero(rel[i])
         /\ ret'.op \notin {"Relocation(uint64_t, uint32_t, int64_t, bool)",
                            "addend(int64_t)"})
        => \A i \in Ents : RelZero(rel'[i])]_vars

\* an implicit-addend record was decoded while the other entity carries a
\* nonzero addend without the has-addend flag
C8_Witness ==
  /\ ret.op = "Relocation(const Elf64_Rel*)"
  /\ ~is_rela(Self) /\ addend(Self) = Zero64
  /\ \E j \in Ents : ~is_rela(rel[j]) /\ addend(rel[j]) # Zero64

\* entity i keeps every field but f
Keeps(i, f) == \A g \in DOMAIN rel[i] \ {f} : rel'[i][g] = rel[i][g]

\* C9: each setter changes exactly its own field of its own entity:
\* address(v) sets address to v, addend(v) sets addend to v, type(v) sets
\* type to v unmasked; none changes the has-addend flag, the architecture or
\* the symbol binding; the accessors, has_symbol(), symbol(), size(), the
\* equality operators and formatting leave every entity unchanged, also when
\* they fail.
C9_SettersAndQueriesFrame ==
  [][LET i == ret'.self IN
     /\ ret'.op = "address(uint64_t)" =>
          /\ rel'[i].address = ret'.arg /\ Keeps(i, "address")
          /\ \A j \in Ents \ {i} : rel'[j] = rel[j]
     /\ ret'.op = "addend(int64_t)" =>
          /\ rel'[i].addend = ret'.arg /\ Keeps(i, "addend")
          /\ \A j \in Ents \ {i} : rel'[j] = rel[j]
     /\ ret'.op = "type(uint32_t)" =>
          /\ rel'[i].type = ret'.arg /\ Keeps(i, "type")
          /\ \A j \in Ents \ {i} : rel'[j] = rel[j]
     /\ ret'.op \in Queries => rel' = rel]_vars

\* type(0x10102) was called on an entity with the has-addend flag, an
\* architecture and a symbol, and is stored whole
C9_Witness ==
  /\ ret.op = "type(uint32_t)" /\ ret.arg = <<258, 1>>
  /\ type(Self) = <<258, 1>>
  /\ is_rela(Self) /\ has_symbol(Self) /\ architecture(Self) = "EM_X86_64"

\* entity i has the five copied fields of r and no symbol
CopyOf(i, r) ==
  /\ rel'[i].address = r.address /\ rel'[i].type = r.type
  /\ rel'[i].addend = r.addend /\ rel'[i].isRela = r.isRela
  /\ rel'[i].architecture = r.architecture
  /\ ~has_symbol(rel'[i])

\* C10: a copy-constructed entity and the target of an assignment have the
\* source's address, type, addend, has-addend flag and architecture but no
\* symbol, whatever the source or the previous target had bound; a source
\* distinct from the target is unchanged; the copy equals its source exactly
\* when the source has no symbol; swap exchanges the two entities whole,
\* symbol binding included.
C10_CopyDropsSymbol ==
  [][LET i == ret'.self
         j == ret'.arg
     IN /\ ret'.op \in {"Relocation(const Relocation&)", "operator="} =>
             /\ CopyOf(i, rel[j])
             /\ i # j => rel'[j] = rel[j]
             /\ operator_eq(rel'[i], rel[j]) <=> ~has_symbol(rel[j])
             /\ operator_ne(rel'[i], rel[j]) <=> has_symbol(rel[j])
        /\ ret'.op = "swap" =>
             /\ rel'[i] = rel[j] /\ rel'[j] = rel[i]
             /\ \A k \in Ents \ {i, j} : rel'[k] = rel[k]]_vars

\* an entity was copy-constructed from a source that has a symbol bound
C10_Witness ==
  /\ ret.op = "Relocation(const Relocation&)"
  /\ has_symbol(rel[ret.arg]) /\ ~has_symbol(Self)
  /\ Values(Self) = Values(rel[ret.arg])
  /\ operator_ne(Self, rel[ret.arg])

====
